---- MODULE Spec2Model ----
(***************************************************************************)
(* Model of Sources/EditLine/editline.c: the line-editor facade over the   *)
(* editline engine.  The facade keeps two module-scoped handles, editLine  *)
(* and historyInstance, and offers lineEditorCreate, lineEditorDestroy,    *)
(* lineEditorReadLine and lineEditorReset.  The engine's objects live in   *)
(* two heaps (elHeap, histHeap) indexed by handle; NULL is the handle 0.   *)
(*                                                                         *)
(* Each facade function is one action.  Its body is an operator over a     *)
(* record m holding the whole program state, so that the statements of the *)
(* C function compose in program order.  m.trace lists the engine calls    *)
(* the last facade call made, each with the handle it was given and        *)
(* whether that handle named a live object at the moment of the call.      *)
(***************************************************************************)
EXTENDS Integers, Sequences, FiniteSets, TLC

VARIABLES editLine, historyInstance, elHeap, histHeap, ret, trace, crashed,
          lastOp, nCommits, stdin, typed, returned, log

vars == <<editLine, historyInstance, elHeap, histHeap, ret, trace, crashed,
          lastOp, nCommits, stdin, typed, returned, log>>

\* The terminal as one session sees it: the committed lines not yet read
\* (stdin), every line committed so far (typed), the lines lineEditorReadLine
\* has returned (returned) and the last few calls of the session (log).
\* Only the session's actions use them; elsewhere the line arrives while
\* lineEditorReadLine waits.
term == <<stdin, typed, returned, log>>

(* ---------------------------------------------------------------- bounds *)

\* Handles the allocator can hand out for each kind of object.
MaxObjects == 2
\* Lines the engine delivers, or the user commits, within one checked behaviour.
MaxCommits == 2

(* ------------------------------------------------------------- constants *)

NULL == 0
HistSize == 800

NL == "\n"

EditorIds == 1..MaxObjects
HistoryIds == 1..MaxObjects

\* What the user can commit: a bare Enter, or text followed by Enter.
Lines == {<<NL>>, <<"a", NL>>, <<"b", NL>>}

\* What one el_gets call can meet on the terminal.
ReadEvents ==
    [kind : {"line"}, bytes : Lines]
      \cup {[kind |-> "eof", bytes |-> <<>>], [kind |-> "error", bytes |-> <<>>]}

\* A call that hands the engine a handle naming no live object is undefined:
\* the process dies there, or the call has no effect and returns.
UBOutcomes == {"crash", "noop"}

(* ------------------------------------------------------------ the heaps *)

FreeEditor ==
    [alloc |-> FALSE, prompt |-> FALSE, editor |-> "", hist |-> NULL, buf |-> <<>>]

FreeHistory == [alloc |-> FALSE, max |-> 0, entries |-> <<>>]

ElLive(m, e) == e # NULL /\ m.elHeap[e].alloc

HistLive(m, h) == h # NULL /\ m.histHeap[h].alloc

\* The editor e is associated (EL_HIST) with a history that has been released.
HistDangling(m, e) ==
    /\ ElLive(m, e)
    /\ m.elHeap[e].hist # NULL
    /\ ~m.histHeap[m.elHeap[e].hist].alloc

Call(fn, arg, live, dangling) ==
    [fn |-> fn, arg |-> arg, live |-> live, dangling |-> dangling]

Log(m, c) == [m EXCEPT !.trace = Append(@, c)]

UB(m, ub) == IF ub = "crash" THEN [m EXCEPT !.crashed = TRUE] ELSE m

(* ------------------------------------------------------ the engine calls *)

\* el_init: e is the handle the allocator returns, NULL when it has none.
el_init(m, e) ==
    IF m.crashed THEN m
    ELSE Log(IF e = NULL THEN m
             ELSE [m EXCEPT !.elHeap[e] = [FreeEditor EXCEPT !.alloc = TRUE]],
             Call("el_init", e, e # NULL, FALSE))

\* el_set(e, EL_PROMPT | EL_EDITOR | EL_HIST, val)
el_set(m, e, op, val, ub) ==
    IF m.crashed THEN m
    ELSE LET l == Log(m, Call(op, e, ElLive(m, e), HistDangling(m, e)))
         IN IF ~ElLive(m, e) THEN UB(l, ub)
            ELSE IF op = "EL_PROMPT" THEN [l EXCEPT !.elHeap[e].prompt = val]
            ELSE IF op = "EL_EDITOR" THEN [l EXCEPT !.elHeap[e].editor = val]
            ELSE [l EXCEPT !.elHeap[e].hist = val]

\* el_reset: the editor drops its pending input and its line buffer.
el_reset(m, e, ub) ==
    IF m.crashed THEN m
    ELSE LET l == Log(m, Call("el_reset", e, ElLive(m, e), HistDangling(m, e)))
         IN IF ~ElLive(m, e) THEN UB(l, ub)
            ELSE [l EXCEPT !.elHeap[e].buf = <<>>]

\* el_end: the editor is released.
el_end(m, e, ub) ==
    IF m.crashed THEN m
    ELSE LET l == Log(m, Call("el_end", e, ElLive(m, e), HistDangling(m, e)))
         IN IF ~ElLive(m, e) THEN UB(l, ub)
            ELSE [l EXCEPT !.elHeap[e] = FreeEditor]

\* el_gets: the read primitive.  A committed line is left in the editor's
\* buffer and returned with its byte count; end of input returns NULL with
\* count 0 and a read error or interrupt NULL with count -1.
el_gets(m, e, ev, ub) ==
    IF m.crashed THEN m
    ELSE LET l == Log(m, Call("el_gets", e, ElLive(m, e), HistDangling(m, e)))
         IN IF ~ElLive(m, e) THEN UB([l EXCEPT !.line = NULL], ub)
            ELSE IF ev.kind = "line"
                 THEN [l EXCEPT !.elHeap[e].buf = ev.bytes,
                                !.line = e, !.count = Len(ev.bytes)]
            ELSE [l EXCEPT !.elHeap[e].buf = <<>>, !.line = NULL,
                           !.count = IF ev.kind = "eof" THEN 0 ELSE -1]

\* history_init: h is the handle the allocator returns, NULL when it has none.
history_init(m, h) ==
    IF m.crashed THEN m
    ELSE Log(IF h = NULL THEN m
             ELSE [m EXCEPT !.histHeap[h] = [FreeHistory EXCEPT !.alloc = TRUE]],
             Call("history_init", h, h # NULL, FALSE))

\* The oldest entries of s are dropped until at most max remain.
RECURSIVE Evict(_, _)
Evict(s, max) == IF Len(s) > max /\ Len(s) > 0 THEN Evict(Tail(s), max) ELSE s

\* history(h, ev, H_SETSIZE, n)
history_setsize(m, h, n, ub) ==
    IF m.crashed THEN m
    ELSE LET l == Log(m, Call("H_SETSIZE", h, HistLive(m, h), FALSE))
         IN IF ~HistLive(m, h) THEN UB(l, ub)
            ELSE [l EXCEPT !.histHeap[h].max = n]

\* history(h, ev, H_ENTER, str): a copy of str becomes the newest entry.
history_enter(m, h, str, ub) ==
    IF m.crashed THEN m
    ELSE LET l == Log(m, Call("H_ENTER", h, HistLive(m, h), FALSE))
         IN IF ~HistLive(m, h) THEN UB(l, ub)
            ELSE [l EXCEPT !.histHeap[h].entries =
                               Evict(Append(@, str), l.histHeap[h].max)]

\* history_end: the history and its entries are released.
history_end(m, h, ub) ==
    IF m.crashed THEN m
    ELSE LET l == Log(m, Call("history_end", h, HistLive(m, h), FALSE))
         IN IF ~HistLive(m, h) THEN UB(l, ub)
            ELSE [l EXCEPT !.histHeap[h] = FreeHistory]

(* --------------------------------------------------- the facade's bodies *)

\* static char *prompt(EditLine *e): the prompt hook is installed.
prompt == TRUE

\* Create that keeps the History it already has instead of making a new one.
CreateKeepsHistory(m, e, h, ub) ==
    LET m1 == [el_init(m, e) EXCEPT !.editLine = IF m.crashed THEN @ ELSE e]
        m2 == el_set(m1, m1.editLine, "EL_PROMPT", prompt, ub)
        m3 == el_set(m2, m2.editLine, "EL_EDITOR", "emacs", ub)
        m4 == IF m3.historyInstance # NULL THEN m3
              ELSE [history_init(m3, h) EXCEPT
                       !.historyInstance = IF m3.crashed THEN @ ELSE h]
        m5 == history_setsize(m4, m4.historyInstance, HistSize, ub)
    IN  el_set(m5, m5.editLine, "EL_HIST", m5.historyInstance, ub)

\* Create with the capacity set one too high.
CreateOffByOne(m, e, h, ub) ==
    LET m1 == [el_init(m, e) EXCEPT !.editLine = IF m.crashed THEN @ ELSE e]
        m2 == el_set(m1, m1.editLine, "EL_PROMPT", prompt, ub)
        m3 == el_set(m2, m2.editLine, "EL_EDITOR", "emacs", ub)
        m4 == [history_init(m3, h) EXCEPT
                   !.historyInstance = IF m3.crashed THEN @ ELSE h]
        m5 == history_setsize(m4, m4.historyInstance, HistSize + 1, ub)
    IN  el_set(m5, m5.editLine, "EL_HIST", m5.historyInstance, ub)

\* lineEditorCreate, lines 14-22.
Create(m, e, h, ub) ==
    LET m1 == [el_init(m, e) EXCEPT !.editLine = IF m.crashed THEN @ ELSE e]
        m2 == el_set(m1, m1.editLine, "EL_PROMPT", prompt, ub)
        m3 == el_set(m2, m2.editLine, "EL_EDITOR", "emacs", ub)
        m4 == [history_init(m3, h) EXCEPT
                   !.historyInstance = IF m3.crashed THEN @ ELSE h]
        m5 == history_setsize(m4, m4.historyInstance, HistSize, ub)
    IN  el_set(m5, m5.editLine, "EL_HIST", m5.historyInstance, ub)

\* Destroy that leaves historyInstance set after history_end.
DestroyKeepsHandle(m, ub) ==
    LET m1 == IF m.historyInstance # NULL
              THEN history_end(m, m.historyInstance, ub)
              ELSE m
    IN  IF m1.editLine # NULL
        THEN LET b == el_end(el_reset(m1, m1.editLine, ub), m1.editLine, ub)
             IN IF b.crashed THEN b ELSE [b EXCEPT !.editLine = NULL]
        ELSE m1

\* lineEditorDestroy, lines 24-35.
Destroy(m, ub) ==
    LET m1 == IF m.historyInstance # NULL
              THEN LET a == history_end(m, m.historyInstance, ub)
                   IN IF a.crashed THEN a ELSE [a EXCEPT !.historyInstance = NULL]
              ELSE m
    IN  IF m1.editLine # NULL
        THEN LET b == el_end(el_reset(m1, m1.editLine, ub), m1.editLine, ub)
             IN IF b.crashed THEN b ELSE [b EXCEPT !.editLine = NULL]
        ELSE m1

\* ReadLine that enters a non-empty line into the History twice.
ReadLineEntersTwice(m, ev, ub) ==
    LET m1 == el_gets([m EXCEPT !.count = 0], m.editLine, ev, ub)
    IN  IF m1.crashed THEN m1
        ELSE IF m1.count <= 0 THEN [m1 EXCEPT !.ret = NULL]
        ELSE IF m1.line = NULL THEN UB(m1, ub)
        ELSE LET m2 == IF Head(m1.elHeap[m1.line].buf) # NL
                       THEN history_enter(
                                history_enter(m1, m1.historyInstance,
                                              m1.elHeap[m1.line].buf, ub),
                                m1.historyInstance, m1.elHeap[m1.line].buf, ub)
                       ELSE m1
             IN IF m2.crashed THEN m2 ELSE [m2 EXCEPT !.ret = m2.line]

\* ReadLine that cuts the trailing newline off the line, in the Editor's
\* buffer, before it enters the line into the History.
ReadLineStripsNewline(m, ev, ub) ==
    LET m1 == el_gets([m EXCEPT !.count = 0], m.editLine, ev, ub)
    IN  IF m1.crashed THEN m1
        ELSE IF m1.count <= 0 THEN [m1 EXCEPT !.ret = NULL]
        ELSE IF m1.line = NULL THEN UB(m1, ub)
        ELSE LET m2 == IF Head(m1.elHeap[m1.line].buf) # NL
                       THEN LET c == [m1 EXCEPT !.elHeap[m1.line].buf =
                                         SubSeq(@, 1, Len(@) - 1)]
                            IN  history_enter(c, c.historyInstance,
                                              c.elHeap[c.line].buf, ub)
                       ELSE m1
             IN IF m2.crashed THEN m2 ELSE [m2 EXCEPT !.ret = m2.line]

\* ReadLine that enters every returned line, a bare newline too.
ReadLineNoFilter(m, ev, ub) ==
    LET m1 == el_gets([m EXCEPT !.count = 0], m.editLine, ev, ub)
    IN  IF m1.crashed THEN m1
        ELSE IF m1.count <= 0 THEN [m1 EXCEPT !.ret = NULL]
        ELSE IF m1.line = NULL THEN UB(m1, ub)
        ELSE LET m2 == history_enter(m1, m1.historyInstance,
                                     m1.elHeap[m1.line].buf, ub)
             IN IF m2.crashed THEN m2 ELSE [m2 EXCEPT !.ret = m2.line]

\* ReadLine that takes only a negative count for "no line".
ReadLineNegativeOnly(m, ev, ub) ==
    LET m1 == el_gets([m EXCEPT !.count = 0], m.editLine, ev, ub)
    IN  IF m1.crashed THEN m1
        ELSE IF m1.count < 0 THEN [m1 EXCEPT !.ret = NULL]
        ELSE IF m1.line = NULL THEN UB(m1, ub)
        ELSE LET m2 == IF Head(m1.elHeap[m1.line].buf) # NL
                       THEN history_enter(m1, m1.historyInstance,
                                          m1.elHeap[m1.line].buf, ub)
                       ELSE m1
             IN IF m2.crashed THEN m2 ELSE [m2 EXCEPT !.ret = m2.line]

\* lineEditorReadLine, lines 37-52.  line[0] of a NULL line is undefined.
ReadLine(m, ev, ub) ==
    LET m1 == el_gets([m EXCEPT !.count = 0], m.editLine, ev, ub)
    IN  IF m1.crashed THEN m1
        ELSE IF m1.count <= 0 THEN [m1 EXCEPT !.ret = NULL]
        ELSE IF m1.line = NULL THEN UB(m1, ub)
        ELSE LET m2 == IF Head(m1.elHeap[m1.line].buf) # NL
                       THEN history_enter(m1, m1.historyInstance,
                                          m1.elHeap[m1.line].buf, ub)
                       ELSE m1
             IN IF m2.crashed THEN m2 ELSE [m2 EXCEPT !.ret = m2.line]

\* Reset that tears the Editor down: el_reset, then el_end.
ResetEndsEditor(m, ub) == el_end(el_reset(m, m.editLine, ub), m.editLine, ub)

\* Reset that also empties the History.
ResetClearsHistory(m, ub) ==
    LET r == el_reset(m, m.editLine, ub)
    IN  IF r.crashed \/ ~HistLive(r, r.historyInstance) THEN r
        ELSE [r EXCEPT !.histHeap[r.historyInstance].entries = <<>>]

\* lineEditorReset, lines 54-56.
Reset(m, ub) == el_reset(m, m.editLine, ub)

(* ------------------------------------------------------ the state machine *)

\* The program state at the start of a facade call: the engine-call trace
\* and the locals of lineEditorReadLine start empty.
State ==
    [editLine |-> editLine, historyInstance |-> historyInstance,
     elHeap |-> elHeap, histHeap |-> histHeap, ret |-> ret,
     trace |-> <<>>, crashed |-> crashed, line |-> NULL, count |-> 0]

Commit(m, op) ==
    /\ editLine' = m.editLine
    /\ historyInstance' = m.historyInstance
    /\ elHeap' = m.elHeap
    /\ histHeap' = m.histHeap
    /\ ret' = m.ret
    /\ trace' = m.trace
    /\ crashed' = m.crashed
    /\ lastOp' = op

\* What an allocation can return: the lowest free handle (handles are opaque,
\* so which free one is returned makes no difference), or NULL for a failure.
Lowest(S) == IF S = {} THEN {} ELSE {CHOOSE x \in S : \A y \in S : x <= y}
AllocEditor == Lowest({e \in EditorIds : ~elHeap[e].alloc}) \cup {NULL}
AllocHistory == Lowest({h \in HistoryIds : ~histHeap[h].alloc}) \cup {NULL}

Init ==
    /\ editLine = NULL
    /\ historyInstance = NULL
    /\ elHeap = [e \in EditorIds |-> FreeEditor]
    /\ histHeap = [h \in HistoryIds |-> FreeHistory]
    /\ ret = NULL
    /\ trace = <<>>
    /\ crashed = FALSE
    /\ lastOp = "none"
    /\ nCommits = 0
    /\ stdin = <<>> /\ typed = <<>> /\ returned = <<>> /\ log = <<>>

lineEditorCreate ==
    /\ ~crashed
    /\ \E e \in AllocEditor, h \in AllocHistory,
          ub \in UBOutcomes :
          Commit(Create(State, e, h, ub), "create")
    /\ UNCHANGED <<nCommits, term>>

lineEditorDestroy ==
    /\ ~crashed
    /\ \E ub \in UBOutcomes : Commit(Destroy(State, ub), "destroy")
    /\ UNCHANGED <<nCommits, term>>

lineEditorReadLine ==
    /\ ~crashed
    /\ \E ev \in ReadEvents, ub \in UBOutcomes :
          LET m == ReadLine(State, ev, ub)
          IN  /\ ev.kind = "line" => nCommits < MaxCommits
              /\ Commit(m, "readLine")
              /\ nCommits' = IF m.count > 0 THEN nCommits + 1 ELSE nCommits
    /\ UNCHANGED term

lineEditorReset ==
    /\ ~crashed
    /\ \E ub \in UBOutcomes : Commit(Reset(State, ub), "reset")
    /\ UNCHANGED <<nCommits, term>>

Next ==
    \/ lineEditorCreate
    \/ lineEditorDestroy
    \/ lineEditorReadLine
    \/ lineEditorReset

Spec == Init /\ [][Next]_vars

(* ------------------------------------------- a session with a full history *)

\* The k-th line of the filling session: "a" and "b" alternate, so that
\* neighbouring entries differ and a dropped entry shows.
FillLine(k) == IF k % 2 = 1 THEN <<"a", NL>> ELSE <<"b", NL>>

InitState ==
    [editLine |-> NULL, historyInstance |-> NULL,
     elHeap |-> [e \in EditorIds |-> FreeEditor],
     histHeap |-> [h \in HistoryIds |-> FreeHistory], ret |-> NULL,
     trace |-> <<>>, crashed |-> FALSE, line |-> NULL, count |-> 0]

\* m after the calls of lineEditorReadLine that return FillLine(lo) ..
\* FillLine(hi), in that order (split in halves to keep the evaluation flat).
RECURSIVE ReadLines(_, _, _)
ReadLines(m, lo, hi) ==
    IF m.crashed \/ lo > hi THEN m
    ELSE IF lo = hi
         THEN ReadLine([m EXCEPT !.trace = <<>>],
                       [kind |-> "line", bytes |-> FillLine(lo)], "crash")
    ELSE LET mid == (lo + hi) \div 2
         IN  ReadLines(ReadLines(m, lo, mid), mid + 1, hi)

\* The program state after lineEditorCreate and then k calls of
\* lineEditorReadLine that returned FillLine(1) .. FillLine(k).
Session(k) == ReadLines(Create(InitState, 1, 1, "crash"), 1, k)

\* The state of a session one line short of a full history.
InitFull ==
    LET m == Session(HistSize - 1)
    IN  /\ editLine = m.editLine
        /\ historyInstance = m.historyInstance
        /\ elHeap = m.elHeap
        /\ histHeap = m.histHeap
        /\ ret = m.ret
        /\ trace = m.trace
        /\ crashed = m.crashed
        /\ lastOp = "readLine"
        /\ nCommits = 0
        /\ stdin = <<>> /\ typed = <<>> /\ returned = <<>> /\ log = <<>>

SpecFull == InitFull /\ [][Next]_vars

(* --------------------------------------------- one session at a terminal *)

\* The last three entries of the session's log, with x the newest.
Push(l, x) == LET a == Append(l, x)
              IN  IF Len(a) > 3 THEN Tail(a) ELSE a

\* What el_gets can meet: the oldest committed line still unread, if there
\* is one, or end of input, or a read error or interrupt.
Pending ==
    (IF stdin = <<>> THEN {} ELSE {[kind |-> "line", bytes |-> Head(stdin)]})
      \cup {[kind |-> "eof", bytes |-> <<>>], [kind |-> "error", bytes |-> <<>>]}

\* How the log names what a lineEditorReadLine met.
Met(ev) == IF ev.kind # "line" THEN ev.kind
           ELSE IF Head(ev.bytes) = NL THEN "enter" ELSE "line"

\* The user commits a line (presses Enter) at the terminal.
UserCommit ==
    /\ ~crashed
    /\ Len(typed) < MaxCommits
    /\ \E l \in Lines :
          /\ stdin' = Append(stdin, l)
          /\ typed' = Append(typed, l)
    /\ UNCHANGED <<editLine, historyInstance, elHeap, histHeap, ret, trace,
                   crashed, lastOp, nCommits, returned, log>>

\* lineEditorReadLine at the terminal: a line el_gets delivers leaves stdin,
\* and what the call returns is recorded.
SessionReadLine ==
    /\ ~crashed
    /\ \E ev \in Pending, ub \in UBOutcomes :
          LET m == ReadLine(State, ev, ub)
          IN  /\ Commit(m, "readLine")
              /\ stdin' = IF m.count > 0 THEN Tail(stdin) ELSE stdin
              /\ returned' = IF ~m.crashed /\ m.count > 0 /\ m.ret # NULL
                             THEN Append(returned, m.elHeap[m.ret].buf)
                             ELSE returned
              /\ log' = Push(log, Met(ev))
    /\ UNCHANGED <<nCommits, typed>>

SessionReset ==
    /\ ~crashed
    /\ \E ub \in UBOutcomes : Commit(Reset(State, ub), "reset")
    /\ log' = Push(log, "reset")
    /\ UNCHANGED <<nCommits, stdin, typed, returned>>

\* The state right after a lineEditorCreate whose allocations succeeded.
InitSession ==
    LET m == Session(0)
    IN  /\ editLine = m.editLine
        /\ historyInstance = m.historyInstance
        /\ elHeap = m.elHeap
        /\ histHeap = m.histHeap
        /\ ret = m.ret
        /\ trace = m.trace
        /\ crashed = m.crashed
        /\ lastOp = "create"
        /\ nCommits = 0
        /\ stdin = <<>> /\ typed = <<>> /\ returned = <<>> /\ log = <<>>

NextSession ==
    \/ UserCommit
    \/ SessionReadLine
    \/ SessionReset

SpecSession == InitSession /\ [][NextSession]_vars

(* ------------------------------------------------- vocabulary of the claims *)

AllocEditors == {e \in EditorIds : elHeap[e].alloc}
AllocHistories == {h \in HistoryIds : histHeap[h].alloc}

\* The singleton's two states: no handle set, or both set and naming live objects.
Absent == editLine = NULL /\ historyInstance = NULL
Live == ElLive(State, editLine) /\ HistLive(State, historyInstance)

\* The last lineEditorCreate met an allocation failure.
AllocationFailed ==
    \E i \in 1..Len(trace) :
        trace[i].fn \in {"el_init", "history_init"} /\ ~trace[i].live

\* What the program holds, without the record of how the last call went.
Program(m) == <<m.editLine, m.historyInstance, m.elHeap, m.histHeap, m.crashed>>

Restart(m) == [m EXCEPT !.trace = <<>>]

(* ------------------------------------------------------------------- C1 *)

\* C1: after a lineEditorCreate in which el_init or history_init could not
\* allocate, no Editor and no History is live and the singleton is Absent.
C1_FailedCreateLeavesNothing ==
    (lastOp = "create" /\ ~crashed /\ AllocationFailed)
        => (AllocEditors = {} /\ AllocHistories = {} /\ Absent)

(* ------------------------------------------------------------------- C2 *)

\* C2: between facade calls the Editor is live if and only if the History is.
C2_EditorAndHistoryPaired ==
    ~crashed => (ElLive(State, editLine) <=> HistLive(State, historyInstance))

(* ------------------------------------------------------------------- C3 *)

\* C3: a lineEditorCreate whose allocations all succeed leaves no Editor and
\* no History allocated that the singleton does not reference, so at most
\* one of each is allocated and unreleased.
C3_CreateDoesNotLeak ==
    (lastOp = "create" /\ ~crashed /\ ~AllocationFailed)
        => (AllocEditors \subseteq {editLine} /\ AllocHistories \subseteq {historyInstance})

(* ------------------------------------------------------------------- C4 *)

\* C4: the singleton is always Absent or Live, and the only transitions are
\* Absent -create-> Live or Absent, Live -readLine-> Live, Live -reset-> Live
\* and destroy -> Absent.
C4_OnlyLifecycleTransitions ==
    [][ ~crashed' =>
          /\ Absent' \/ Live'
          /\ (lastOp' = "create" /\ Absent) => (Live' \/ Absent')
          /\ (lastOp' \in {"readLine", "reset"} /\ Live) => Live'
          /\ lastOp' = "destroy" => Absent' ]_vars

(* ------------------------------------------------------------------ C10 *)

\* C10: when lineEditorDestroy resets and ends the Editor, the History the
\* Editor is associated with has not already been released.
C10_NoDanglingHistoryAtTeardown ==
    lastOp = "destroy" =>
        \A i \in 1..Len(trace) :
            trace[i].fn \in {"el_reset", "el_end"} => ~trace[i].dangling

(* ------------------------------------------------------------------- C5 *)

\* C5: lineEditorDestroy in the Absent state changes nothing, calls nothing
\* and releases nothing; and from every state a second lineEditorDestroy
\* right after a first one makes no engine call and leaves the program as
\* the first left it, every release of the first having been given a live
\* object.
C5_DestroyIdempotent ==
    /\ [][ (lastOp' = "destroy" /\ Absent /\ ~crashed) =>
              /\ UNCHANGED <<editLine, historyInstance, elHeap, histHeap, ret>>
              /\ trace' = <<>>
              /\ ~crashed' ]_vars
    /\ [](~crashed =>
            \A ub \in UBOutcomes :
                LET d1 == Destroy(State, ub)
                    d2 == Destroy(Restart(d1), ub)
                IN  /\ ~d1.crashed
                    /\ d1.editLine = NULL /\ d1.historyInstance = NULL
                    /\ \A i \in 1..Len(d1.trace) : d1.trace[i].live
                    /\ d2.trace = <<>>
                    /\ Program(d2) = Program(d1))

\* create; readLine; destroy; destroy: the second destroy found the
\* singleton Absent and did nothing.
C5_Witness ==
    /\ lastOp = "destroy" /\ trace = <<>> /\ ~crashed
    /\ Absent /\ AllocEditors = {} /\ AllocHistories = {}
    /\ nCommits > 0

(* ------------------------------------------------------------------- C6 *)

\* C6: a lineEditorReadLine in the Live state that returns a line whose
\* first byte is not a newline makes exactly that line the newest History
\* entry, one entry being added (the older entries keep their order, the
\* oldest leaving only when the History was full); a returned bare newline
\* or a NULL return leaves both heaps' histories as they were.
C6_HistorySideEffect ==
    [][ (lastOp' = "readLine" /\ Live) =>
          LET old == histHeap[historyInstance].entries
              new == histHeap'[historyInstance].entries
          IN  /\ ~crashed'
              /\ UNCHANGED <<editLine, historyInstance>>
              /\ IF ret' # NULL /\ Head(elHeap'[ret'].buf) # NL
                 THEN /\ \/ new = Append(old, elHeap'[ret'].buf)
                         \/ /\ Len(old) = HistSize
                            /\ new = Append(Tail(old), elHeap'[ret'].buf)
                      /\ \A h \in HistoryIds \ {historyInstance} :
                            histHeap'[h] = histHeap[h]
                 ELSE histHeap' = histHeap ]_vars

\* Two lines were read in a Live session and both are in the History, the
\* newest last.
C6_Witness ==
    /\ lastOp = "readLine" /\ Live /\ ~crashed /\ ret = editLine
    /\ elHeap[editLine].buf = <<"b", NL>>
    /\ histHeap[historyInstance].entries = << <<"a", NL>>, <<"b", NL>> >>

(* ------------------------------------------------------------------- C7 *)

Min(a, b) == IF a < b THEN a ELSE b

\* C7: no History ever holds more than 800 entries; a lineEditorReadLine in
\* the Live state that returns a line not starting with a newline leaves
\* min(previous length + 1, 800) entries, and from a full History it removes
\* the oldest entry and keeps the others in order before the new one.
C7_HistoryBounded ==
    /\ [](\A h \in HistoryIds : Len(histHeap[h].entries) <= HistSize)
    /\ [][ (lastOp' = "readLine" /\ Live /\ ret' # NULL
              /\ Head(elHeap'[ret'].buf) # NL) =>
              LET old == histHeap[historyInstance].entries
                  new == histHeap'[historyInstance].entries
              IN  /\ Len(new) = Min(Len(old) + 1, HistSize)
                  /\ Len(old) = HistSize =>
                        new = Append(Tail(old), elHeap'[ret'].buf) ]_vars

\* After the 799 lines of the filling session and two more, 801 lines in
\* all, the History holds the 2nd to the 801st.
C7_Witness ==
    /\ lastOp = "readLine" /\ Live /\ ~crashed /\ nCommits = 2
    /\ Len(histHeap[historyInstance].entries) = HistSize
    /\ \A k \in 1..(HistSize - 2) :
          histHeap[historyInstance].entries[k] = FillLine(k + 1)
    /\ histHeap[historyInstance].entries[HistSize] = elHeap[editLine].buf

(* ------------------------------------------------------------------- C8 *)

\* C8: in every Live state, a lineEditorReadLine whose el_gets reports a
\* byte count <= 0 returns NULL, leaves every History as it was and leaves
\* the singleton Live, the process running.
C8_NoLineLeavesHistory ==
    (Live /\ ~crashed) =>
        \A ev \in ReadEvents, ub \in UBOutcomes :
            LET r == ReadLine(State, ev, ub)
            IN  r.count <= 0 =>
                  /\ ~r.crashed
                  /\ r.ret = NULL
                  /\ r.histHeap = histHeap
                  /\ r.editLine = editLine /\ r.historyInstance = historyInstance
                  /\ ElLive(r, r.editLine) /\ HistLive(r, r.historyInstance)

\* A readLine that returned NULL in a Live session whose History holds a line.
C8_Witness ==
    /\ lastOp = "readLine" /\ Live /\ ~crashed /\ ret = NULL
    /\ Len(trace) = 1 /\ trace[1].fn = "el_gets" /\ trace[1].live
    /\ histHeap[historyInstance].entries = << <<"a", NL>> >>

(* ------------------------------------------------------------------- C9 *)

\* C9: lineEditorReset in the Live state leaves every History (entries,
\* order, capacity), both handles and the liveness of both objects as they
\* were; and a second reset right after a first leaves the program as the
\* first left it.
C9_ResetKeepsHistory ==
    /\ [][ (lastOp' = "reset" /\ Live) =>
              /\ ~crashed'
              /\ histHeap' = histHeap
              /\ UNCHANGED <<editLine, historyInstance>>
              /\ AllocEditors' = AllocEditors
              /\ Live' ]_vars
    /\ []((Live /\ ~crashed) =>
            \A ub \in UBOutcomes :
                LET r1 == Reset(State, ub)
                    r2 == Reset(Restart(r1), ub)
                IN  /\ r1.histHeap = histHeap
                    /\ Program(r2) = Program(r1) /\ r2.ret = r1.ret)

\* A reset in a Live session whose History holds two lines.
C9_Witness ==
    /\ lastOp = "reset" /\ Live /\ ~crashed
    /\ Len(trace) = 1 /\ trace[1].fn = "el_reset" /\ trace[1].live
    /\ Len(histHeap[historyInstance].entries) = 2

(* ------------------------------------------------------------------ C11 *)

\* C11: the History a lineEditorCreate installs is empty (and of capacity
\* 800), whatever earlier sessions appended: after create; readLine ...;
\* destroy; create no entry of the earlier session is in the History.
C11_FreshHistoryAfterCreate ==
    (lastOp = "create" /\ ~crashed /\ historyInstance # NULL) =>
        /\ HistLive(State, historyInstance)
        /\ histHeap[historyInstance].entries = <<>>
        /\ histHeap[historyInstance].max = HistSize

\* A second session: lines were read, every object of the first session has
\* been released, and the create that followed left one Editor and one
\* empty History.
C11_Witness ==
    /\ lastOp = "create" /\ ~crashed /\ Live
    /\ nCommits = MaxCommits /\ ret # NULL
    /\ AllocEditors = {editLine} /\ AllocHistories = {historyInstance}
    /\ histHeap[historyInstance].entries = <<>>

(* ------------------------------------------------------------------ C15 *)

\* C15: a lineEditorDestroy from any state leaves both handles NULL and no
\* Editor and no History allocated, having released every object that was
\* live once: a History by history_end, an Editor by el_reset then el_end,
\* each call given an object that is live at that moment.
C15_DestroyReleasesEveryLiveObject ==
    [][ (lastOp' = "destroy" /\ ~crashed) =>
          /\ ~crashed'
          /\ editLine' = NULL /\ historyInstance' = NULL
          /\ \A i \in 1..Len(trace') : trace'[i].live
          /\ \A h \in AllocHistories :
                Cardinality({i \in 1..Len(trace') :
                    trace'[i] = Call("history_end", h, TRUE, FALSE)}) = 1
          /\ \A e \in AllocEditors :
                \E i \in 1..(Len(trace') - 1) :
                    /\ trace'[i].fn = "el_reset" /\ trace'[i].arg = e
                    /\ trace'[i + 1].fn = "el_end" /\ trace'[i + 1].arg = e
          /\ AllocEditors' = {} /\ AllocHistories' = {} ]_vars

(* ------------------------------------------------------------------ C16 *)

\* C16: a lineEditorReadLine or lineEditorReset that follows a create that
\* returned, or follows a readLine or reset that itself was given live
\* handles, hands el_gets, el_reset and H_ENTER only live handles.
C16_OnlyLiveHandlesAfterCreate ==
    [][ ( /\ ~crashed
          /\ \/ lastOp = "create"
             \/ /\ lastOp \in {"readLine", "reset"}
                /\ trace # <<>>
                /\ \A i \in 1..Len(trace) : trace[i].live
          /\ lastOp' \in {"readLine", "reset"} ) =>
          \A i \in 1..Len(trace') : trace'[i].live ]_vars

(* ------------------------------------------------------------------ C12 *)

NonEmpty(l) == Head(l) # NL

C13_ReturnedViewUnaltered ==
    (lastOp = "readLine" /\ ret # NULL /\ ~crashed) =>
        /\ ElLive(State, ret)
        /\ returned # <<>>
        /\ elHeap[ret].buf = typed[Len(typed) - Len(stdin)]
        /\ elHeap[ret].buf = returned[Len(returned)]
        /\ elHeap[ret].buf[Len(elHeap[ret].buf)] = NL

\* The call returned "a\n" and entered it into the History; the user has
\* committed a further line since, which is pending.
C13_Witness ==
    /\ lastOp = "readLine" /\ ret = editLine /\ ~crashed
    /\ elHeap[ret].buf = <<"a", NL>>
    /\ histHeap[historyInstance].entries = << <<"a", NL>> >>
    /\ stdin = << <<"b", NL>> >>

(* ------------------------------------------------------------------ C14 *)

\* C14: a lineEditorReadLine that met an interrupt returned NULL and left
\* the History holding exactly the non-empty lines returned so far; and
\* after interrupt, reset, and a readLine that met a committed non-empty
\* line, that line is returned and is the newest History entry, the History
\* again holding exactly the non-empty lines returned.
C14_ResetAfterInterrupt ==
    /\ (log # <<>> /\ log[Len(log)] = "error") =>
          /\ ~crashed /\ Live /\ ret = NULL
          /\ histHeap[historyInstance].entries = SelectSeq(returned, NonEmpty)
    /\ log = <<"error", "reset", "line">> =>
          /\ ~crashed /\ Live /\ ret = editLine
          /\ returned # <<>>
          /\ elHeap[ret].buf = typed[Len(typed) - Len(stdin)]
          /\ NonEmpty(elHeap[ret].buf)
          /\ histHeap[historyInstance].entries # <<>>
          /\ histHeap[historyInstance].entries
                 [Len(histHeap[historyInstance].entries)] = elHeap[ret].buf
          /\ histHeap[historyInstance].entries = SelectSeq(returned, NonEmpty)

\* create; readLine interrupted; reset; readLine of "a\n": the line is
\* returned and the History holds it alone.
C14_Witness ==
    /\ log = <<"error", "reset", "line">> /\ ~crashed
    /\ lastOp = "readLine" /\ ret = editLine
    /\ elHeap[ret].buf = <<"a", NL>>
    /\ histHeap[historyInstance].entries = << <<"a", NL>> >>

====
